---------------------------- MODULE Spec2Model ----------------------------
(***************************************************************************)
(* A state-machine model of netZooPy's Panda class                         *)
(* (src/netZooPy/panda/panda.py): the entity aligner (processData and      *)
(* __remove_missing), the normalizer (_normalize_network), the message     *)
(* passing loop (panda_loop with t_function and update_diagonal) and the   *)
(* result export.                                                          *)
(*                                                                         *)
(* Numbers.  A real number x is held as the integer round(x * One)         *)
(* (fixed point, One = 1.0).  Sums and products are carried exactly and    *)
(* rounded once, at the final quotient, so that the only undefined         *)
(* quotient is 0/0, which yields NaN exactly where IEEE arithmetic yields  *)
(* NaN for the same exactly representable inputs.  NaN is absorbing in     *)
(* every arithmetic operator and every comparison with NaN is false.       *)
(* Entity labels (gene and TF names) are small integers; their order is    *)
(* the order sorted() uses.                                                *)
(***************************************************************************)
EXTENDS Integers, Sequences, FiniteSets, TLC

VARIABLES
    args,       \* the arguments of Panda.__init__ / of the panda_loop call
    self,       \* the Panda object: attribute name -> value (hasattr = in DOMAIN)
    loc,        \* panda_loop's local variables
    pc,         \* where construction stands
    hist        \* history of the run: calls made, passes, blends, updates

vars == <<args, self, loc, pc, hist>>

---------------------------------------------------------------------------
(* Fixed-point arithmetic with NaN.                                        *)

\* 1.0 in fixed point
One == 100

\* the IEEE not-a-number, encoded outside the range of every number held
NaN == -(2^30)

IsNaN(x) == x = NaN

\* n / d rounded to the nearest integer (half away from zero), d > 0
RDiv(n, d) == IF n >= 0 THEN (2 * n + d) \div (2 * d)
                        ELSE -((2 * (-n) + d) \div (2 * d))

\* IEEE quotient of exact integers: 0/0 is NaN.  (x/0 with x # 0 does not
\* arise: every divisor is the root of an exact sum of squares, zero only
\* when the dividend is zero too.)
Quot(n, d) == IF IsNaN(n) \/ IsNaN(d) THEN NaN
              ELSE IF d = 0 THEN NaN
              ELSE IF d > 0 THEN RDiv(n, d) ELSE RDiv(-n, -d)

Add(a, b) == IF IsNaN(a) \/ IsNaN(b) THEN NaN ELSE a + b
Sub(a, b) == IF IsNaN(a) \/ IsNaN(b) THEN NaN ELSE a - b
AbsI(a) == IF a < 0 THEN -a ELSE a
Abs(a) == IF IsNaN(a) THEN NaN ELSE AbsI(a)

\* largest r with r * r <= n, by bisection on lo..hi
RECURSIVE SqrtBetween(_, _, _)
SqrtBetween(n, lo, hi) ==
    IF lo >= hi THEN lo
    ELSE LET mid == (lo + hi + 1) \div 2
         IN  IF mid * mid <= n THEN SqrtBetween(n, mid, hi)
                               ELSE SqrtBetween(n, lo, mid - 1)

\* numpy.sqrt / math.sqrt on an exact non-negative integer
ISqrt(n) == IF IsNaN(n) \/ n < 0 THEN NaN ELSE SqrtBetween(n, 0, 46340)

\* sum of f[1..n], NaN-absorbing
RECURSIVE SumTo(_, _)
SumTo(f, n) == IF n = 0 THEN 0 ELSE Add(SumTo(f, n - 1), f[n])

\* the sequence f[1], ..., f[n], built entry by entry
RECURSIVE Vec(_, _)
Vec(f, n) == IF n = 0 THEN <<>> ELSE Append(Vec(f, n - 1), f[n])

\* the n x m matrix whose entry (i, j) is f[i][j], built entry by entry
Mat(f, n, m) == Vec([i \in 1..n |-> Vec(f[i], m)], n)

\* exact product of two fixed-point numbers (scale One * One)
Prod(a, b) == IF IsNaN(a) \/ IsNaN(b) THEN NaN ELSE a * b

---------------------------------------------------------------------------
(* Matrices: a matrix is a sequence of rows, each a sequence of numbers.   *)

NRows(x) == Len(x)
NCols(x) == IF Len(x) = 0 THEN 0 ELSE Len(x[1])

\* x.T
Transpose(x) == Mat([j \in 1..NCols(x) |-> [i \in 1..NRows(x) |-> x[i][j]]],
                    NCols(x), NRows(x))

\* column j of x
Col(x, j) == Vec([i \in 1..NRows(x) |-> x[i][j]], NRows(x))

\* numpy.identity(n)
Identity(n) == Mat([i \in 1..n |-> [j \in 1..n |-> IF i = j THEN One ELSE 0]], n, n)

\* numpy.zeros((n, m))
Zeros(n, m) == Mat([i \in 1..n |-> [j \in 1..m |-> 0]], n, m)

\* numpy.isnan(x).any()
HasNaN(x) == \E i \in 1..NRows(x) : \E j \in 1..NCols(x) : IsNaN(x[i][j])

\* u . v carried exactly (scale One * One)
RECURSIVE DotTo(_, _, _)
DotTo(u, v, n) == IF n = 0 THEN 0 ELSE Add(DotTo(u, v, n - 1), Prod(u[n], v[n]))
Dot(u, v) == DotTo(u, v, Len(u))


\* row-major list of the entries of x
RECURSIVE FlattenC(_)
FlattenC(x) == IF Len(x) = 0 THEN <<>> ELSE x[1] \o FlattenC(Tail(x))

\* x.flatten() in numpy's default order, row-major
FlattenRowMajor(x) == FlattenC(x)

\* x.flatten(order='F'): column-major, the row index varies fastest
FlattenF(x) == FlattenC(Transpose(x))

\* the entries of the matrix x as one sequence, for sums over all of x
Entries(x) == FlattenC(x)

---------------------------------------------------------------------------
(* panda_loop: the similarity kernel, the diagonal calibrator, one pass.   *)

\* the learning rate alpha is args.alpha / AlphaDen
AlphaDen == 10

\* hamming is held at a finer scale than the matrices: HamOne is 1.0
HamOne == 10000

\* the tolerance 0.001 of "while hamming > 0.001", at hamming's scale
Tol == 10

\* a comparison that takes NaN for greater than everything
GtOrNaN(a, b) == IsNaN(a) \/ a > b

\* a > b as IEEE compares: false when a is NaN
Gt(a, b) == ~IsNaN(a) /\ a > b

\* numpy.dot(x, y) is defined: the inner dimensions agree
DotDefined(x, y) == NCols(x) = NRows(y)

\* the Tanimoto coefficient without the square root: a / (|y|^2 + |x|^2 - |a|)
TFunctionXYTanimoto(x, y) ==
    LET yt == Transpose(y)
        sx == Vec([i \in 1..NRows(x) |-> Dot(x[i], x[i])], NRows(x))
        sy == Vec([j \in 1..NCols(y) |-> Dot(yt[j], yt[j])], NCols(y))
    IN  Mat([i \in 1..NRows(x) |-> [j \in 1..NCols(y) |->
                LET a == Dot(x[i], yt[j])
                IN  Quot(Prod(a, One), Sub(Add(sy[j], sx[i]), Abs(a)))]],
            NRows(x), NCols(y))

\* t_function(x, y): a = dot(x, y); a /= sqrt(colsq(y) + rowsq(x) - |a|)
TFunctionXY(x, y) ==
    LET yt == Transpose(y)
        sx == Vec([i \in 1..NRows(x) |-> Dot(x[i], x[i])], NRows(x))
        sy == Vec([j \in 1..NCols(y) |-> Dot(yt[j], yt[j])], NCols(y))
    IN  Mat([i \in 1..NRows(x) |-> [j \in 1..NCols(y) |->
                LET a == Dot(x[i], yt[j])
                IN  Quot(a, ISqrt(Sub(Add(sy[j], sx[i]), Abs(a))))]],
            NRows(x), NCols(y))

\* t_function(x): y is None, the rows of x against the rows of x
TFunctionX(x) == TFunctionXY(x, Transpose(x))

\* math.exp(2 * alpha * step) in fixed point: e^(k/5), k = args.alpha * step
RECURSIVE ExpFifths(_)
ExpFifths(k) == IF k = 0 THEN One ELSE RDiv(ExpFifths(k - 1) * 1221, 1000)

\* numpy.nanstd of the sequence v: the population standard deviation of
\* its non-NaN entries, NaN when there is none
NanStd(v) ==
    LET idx  == {k \in 1..Len(v) : ~IsNaN(v[k])}
        n    == Cardinality(idx)
        RECURSIVE SumOver(_, _)
        SumOver(f, S) == IF S = {} THEN 0
                         ELSE LET k == CHOOSE k \in S : TRUE
                              IN  f[k] + SumOver(f, S \ {k})
        s    == SumOver(v, idx)
        dev  == [k \in 1..Len(v) |-> IF k \in idx THEN (n * v[k] - s) * (n * v[k] - s) ELSE 0]
    IN  IF n = 0 THEN NaN
        ELSE ISqrt(RDiv(SumOver(dev, idx), n * n * n))

\* update_diagonal(diagonal_matrix, num, alpha, step): the diagonal is set
\* to NaN, then to nanstd(row) * num * exp(2 * alpha * step)
UpdateDiagonal(m, num, alpha, step) ==
    LET holed == Mat([i \in 1..NRows(m) |-> [j \in 1..NCols(m) |->
                         IF i = j THEN NaN ELSE m[i][j]]], NRows(m), NCols(m))
        growth == ExpFifths(alpha * step)
        fill  == Vec([i \in 1..NRows(m) |->
                         LET sd == NanStd(holed[i])
                         IN  IF IsNaN(sd) THEN NaN
                             ELSE RDiv(sd * num * growth, One)], NRows(m))
    IN  Mat([i \in 1..NRows(m) |-> [j \in 1..NCols(m) |->
                IF i = j THEN fill[i] ELSE m[i][j]]], NRows(m), NCols(m))

\* m *= (1 - alpha); m += alpha * w
Blend(m, w, alpha) ==
    Mat([i \in 1..NRows(m) |-> [j \in 1..NCols(m) |->
            IF IsNaN(m[i][j]) \/ IsNaN(w[i][j]) THEN NaN
            ELSE RDiv((AlphaDen - alpha) * m[i][j] + alpha * w[i][j], AlphaDen)]],
        NRows(m), NCols(m))

\* W = 0.5 * (t_function(ppi, motif) + t_function(motif, correlation))
ConsensusW(ppi, motif, corr) ==
    LET r == TFunctionXY(ppi, motif)
        a == TFunctionXY(motif, corr)
    IN  Mat([i \in 1..NRows(motif) |-> [j \in 1..NCols(motif) |->
                Quot(Add(r[i][j], a[i][j]), 2)]], NRows(motif), NCols(motif))

\* hamming = abs(motif - W).mean(), at hamming's scale
Hamming(motif, w) ==
    LET d == Entries(Mat([i \in 1..NRows(motif) |-> [j \in 1..NCols(motif) |->
                 Abs(Sub(motif[i][j], w[i][j]))]], NRows(motif), NCols(motif)))
        s == SumTo(d, Len(d))
    IN  IF IsNaN(s) THEN NaN ELSE (s * (HamOne \div One)) \div Len(d)

\* the operands of one pass broadcast: dot(ppi, motif), dot(motif, corr)
\* and motif - W are all defined
PassDefined(ppi, motif, corr) ==
    /\ DotDefined(ppi, motif)
    /\ DotDefined(motif, corr)
    /\ NRows(ppi) = NRows(motif)
    /\ NCols(corr) = NCols(motif)
    /\ NRows(ppi) = NCols(ppi)


---------------------------------------------------------------------------
(* Optional values and the object's attributes.                            *)

\* Python's None, and a value that is not None
None == [none |-> TRUE]
Some(x) == [none |-> FALSE, v |-> x]
IsNone(x) == x.none

\* hasattr(self, name)
HasAttr(obj, name) == name \in DOMAIN obj

\* self.name = value, for each name of the record set
SetAttrs(obj, set) ==
    [n \in DOMAIN obj \cup DOMAIN set |-> IF n \in DOMAIN set THEN set[n] ELSE obj[n]]

\* del self.name, for each name of names
DelAttrs(obj, names) == [n \in DOMAIN obj \ names |-> obj[n]]

---------------------------------------------------------------------------
(* _normalize_network.                                                     *)

\* scipy.stats.zscore of the sequence v: (v - mean) / std with the
\* population std; with d[k] = n*v[k] - sum(v) this is d[k]*n / sqrt(n*sum(d^2))
ZScoreVec(v) ==
    LET n  == Len(v)
        s  == SumTo(v, n)
        d  == Vec([k \in 1..n |-> Sub(n * v[k], s)], n)
        ss == SumTo(Vec([k \in 1..n |-> Prod(d[k], d[k])], n), n)
    IN  Vec([k \in 1..n |-> Quot(Prod(d[k], n * One), ISqrt(Prod(ss, n)))], n)

\* zscore(x, axis=0): every column standardized
ZScoreCols(x) ==
    LET z == Vec([j \in 1..NCols(x) |-> ZScoreVec(Col(x, j))], NCols(x))
    IN  Mat([i \in 1..NRows(x) |-> [j \in 1..NCols(x) |-> z[j][i]]], NRows(x), NCols(x))

\* zscore(x, axis=1): every row standardized
ZScoreRows(x) == Vec([i \in 1..NRows(x) |-> ZScoreVec(x[i])], NRows(x))

\* (x - mean(x)) / std(x) over all the entries of x
ZScoreTotal(x) ==
    LET z == ZScoreVec(Entries(x))
    IN  Mat([i \in 1..NRows(x) |-> [j \in 1..NCols(x) |-> z[(i - 1) * NCols(x) + j]]],
            NRows(x), NCols(x))

\* v / math.sqrt(2)
DivSqrt2(v) == IF IsNaN(v) THEN NaN ELSE RDiv(v * 1000, 1414)

\* _normalize_network(x), lines 189-202
NormalizeNetwork(x) ==
    LET norm_col   == ZScoreCols(x)
        norm_row   == IF NRows(x) = NCols(x) THEN Transpose(norm_col)
                                             ELSE ZScoreRows(x)
        norm_total == ZScoreTotal(x)
    IN  Mat([i \in 1..NRows(x) |-> [j \in 1..NCols(x) |->
                LET nan_col == IsNaN(norm_col[i][j])
                    nan_row == IsNaN(norm_row[i][j])
                IN  IF nan_col /\ nan_row
                        THEN DivSqrt2(Prod(2, norm_total[i][j]))
                    ELSE IF nan_row
                        THEN DivSqrt2(Add(norm_col[i][j], norm_total[i][j]))
                    ELSE IF nan_col
                        THEN DivSqrt2(Add(norm_row[i][j], norm_total[i][j]))
                    ELSE DivSqrt2(Add(norm_col[i][j], norm_row[i][j]))]],
            NRows(x), NCols(x))

---------------------------------------------------------------------------
(* processData: loading, __remove_missing, the canonical label sets.       *)
(* A motif or PPI table is a sequence of rows <<label, label, weight>>, an *)
(* expression table a sequence of rows <<gene, samples>>.                  *)

\* the set of the entries of a sequence
Range(q) == {q[k] : k \in 1..Len(q)}

\* sorted(set): the members of the set S of integers in ascending order
RECURSIVE Sorted(_)
Sorted(S) ==
    IF S = {} THEN <<>>
    ELSE LET least == CHOOSE x \in S : \A y \in S : x <= y
         IN  <<least>> \o Sorted(S \ {least})

\* column c of a table, as a sequence
Column(rows, c) == Vec([k \in 1..Len(rows) |-> rows[k][c]], Len(rows))

\* table[table[c].isin(S)]: the rows whose column c is in S, in order
RECURSIVE RowsIn(_, _, _)
RowsIn(rows, c, S) ==
    IF Len(rows) = 0 THEN <<>>
    ELSE IF rows[1][c] \in S THEN <<rows[1]>> \o RowsIn(Tail(rows), c, S)
                             ELSE RowsIn(Tail(rows), c, S)

\* {x: i for i, x in enumerate(labels)}.get(x, 0), counting from 1: the
\* last place of x in labels, the first place when x is not there
IndexOrFirst(labels, x) ==
    IF x \in Range(labels)
        THEN CHOOSE i \in 1..Len(labels) :
                 /\ labels[i] = x
                 /\ \A k \in (i + 1)..Len(labels) : labels[k] # x
        ELSE 1

\* lines 222-285: the three tables are taken in and their label lists made
LoadData(a) ==
    LET motif == IF IsNone(a.motif_file)
                 THEN [motif_data |-> None, motif_tfs |-> <<>>, motif_genes |-> <<>>]
                 ELSE [motif_data  |-> a.motif_file,
                       motif_tfs   |-> Sorted(Range(Column(a.motif_file.v, 1))),
                       motif_genes |-> Sorted(Range(Column(a.motif_file.v, 2)))]
        expr  == IF IsNone(a.expression_file)
                 THEN [gene_names       |-> motif.motif_genes,
                       expression_genes |-> motif.motif_genes,
                       num_genes        |-> Len(motif.motif_genes),
                       expression_data  |-> None]
                 ELSE [expression_data  |-> a.expression_file,
                       expression_genes |-> Column(a.expression_file.v, 1)]
        ppi   == IF IsNone(a.ppi_file)
                 THEN [ppi_data |-> None, ppi_tfs |-> motif.motif_tfs]
                 ELSE [ppi_data |-> a.ppi_file,
                       ppi_tfs  |-> Sorted(Range(Column(a.ppi_file.v, 1))
                                           \cup Range(Column(a.ppi_file.v, 2)))]
    IN  SetAttrs(SetAttrs(motif, expr), ppi)

\* __remove_missing, lines 154-176 (called only with a motif table)
RemoveMissing(obj) ==
    LET o1 == IF ~IsNone(obj.expression_data)
              THEN LET kept == RowsIn(obj.expression_data.v, 1,
                                      Range(Column(obj.motif_data.v, 2)))
                   IN  SetAttrs(obj, [expression_data |-> Some(kept),
                                      gene_names      |-> Column(kept, 1),
                                      num_genes       |-> Len(kept)])
              ELSE obj
        motif == RowsIn(o1.motif_data.v, 2, Range(o1.gene_names))
        o2 == SetAttrs(o1, [motif_data |-> Some(motif),
                            unique_tfs |-> Sorted(Range(Column(motif, 1))),
                            num_tfs    |-> Cardinality(Range(Column(motif, 1)))])
    IN  IF ~IsNone(o2.ppi_data)
        THEN LET motif_unique_tfs == Range(Column(motif, 1))
             IN  SetAttrs(o2, [ppi_data |-> Some(RowsIn(RowsIn(o2.ppi_data.v, 1,
                                   motif_unique_tfs), 2, motif_unique_tfs))])
        ELSE o2

\* the canonical sets with the union taken as the plain concatenation of
\* the lists, neither sorted nor freed of duplicates
CanonicalSetsConcatenated(obj, a) ==
    LET names ==
          IF a.modeProcess = "legacy"
          THEN [gene_names |-> IF ~IsNone(a.expression_file)
                                   THEN obj.expression_genes ELSE obj.gene_names,
                unique_tfs |-> IF IsNone(a.motif_file)
                                   THEN obj.ppi_tfs ELSE obj.motif_tfs]
          ELSE IF a.modeProcess = "union"
          THEN [gene_names |-> obj.motif_genes \o obj.expression_genes,
                unique_tfs |-> obj.ppi_tfs \o obj.motif_tfs]
          ELSE IF IsNone(a.motif_file)
          THEN [gene_names |-> Sorted(Range(obj.expression_genes)),
                unique_tfs |-> Sorted(Range(obj.ppi_tfs))]
          ELSE [gene_names |-> Sorted(Range(obj.motif_genes)
                                      \cap Range(obj.expression_genes)),
                unique_tfs |-> Sorted(Range(obj.ppi_tfs) \cap Range(obj.motif_tfs))]
    IN  SetAttrs(obj, [gene_names |-> names.gene_names,
                       unique_tfs |-> names.unique_tfs,
                       num_genes  |-> Len(names.gene_names),
                       num_tfs    |-> Len(names.unique_tfs)])

\* lines 289-310: gene_names, unique_tfs and their lengths, by mode
CanonicalSets(obj, a) ==
    LET names ==
          IF a.modeProcess = "legacy"
          THEN SetAttrs(
                 IF ~IsNone(a.expression_file)
                     THEN [gene_names |-> obj.expression_genes]
                     ELSE [gene_names |-> obj.gene_names],
                 IF IsNone(a.motif_file)
                     THEN [unique_tfs |-> obj.ppi_tfs]
                     ELSE [unique_tfs |-> obj.motif_tfs])
          ELSE IF a.modeProcess = "union"
          THEN [gene_names |-> Sorted(Range(obj.motif_genes \o obj.expression_genes)),
                unique_tfs |-> Sorted(Range(obj.ppi_tfs \o obj.motif_tfs))]
          ELSE IF IsNone(a.motif_file)
          THEN [gene_names |-> Sorted(Range(obj.expression_genes)),
                unique_tfs |-> Sorted(Range(obj.ppi_tfs))]
          ELSE [gene_names |-> Sorted(Range(obj.motif_genes)
                                      \cap Range(obj.expression_genes)),
                unique_tfs |-> Sorted(Range(obj.ppi_tfs) \cap Range(obj.motif_tfs))]
    IN  SetAttrs(obj, [gene_names |-> names.gene_names,
                       unique_tfs |-> names.unique_tfs,
                       num_genes  |-> Len(names.gene_names),
                       num_tfs    |-> Len(names.unique_tfs)])

---------------------------------------------------------------------------
(* processData: the aligned expression, the correlation matrix.            *)

\* An assignment through an index list that names a place more than once
\* leaves one of the values written there; numpy does not say which.  The
\* two orders of writing are modelled: "fwd" keeps the last value written,
\* "rev" the first.
WriteOrders == {"fwd", "rev"}

\* among the writes K (positions in the index list) the one that stays
Stays(K, ord) ==
    IF ord = "fwd" THEN CHOOSE k \in K : \A h \in K : h <= k
                   ELSE CHOOSE k \in K : \A h \in K : k <= h

\* m[idx, :] = vals: row idx[k] of m becomes vals[k]
WriteRows(m, idx, vals, ord) ==
    Vec([i \in 1..NRows(m) |->
            LET K == {k \in 1..Len(idx) : idx[k] = i}
            IN  IF K = {} THEN m[i] ELSE vals[Stays(K, ord)]], NRows(m))

\* m.ravel()[ravel_multi_index((ri, ci), m.shape)] = vals, m of n x g:
\* cell (ri[k], ci[k]) of m becomes vals[k]
WriteCells(m, n, g, ri, ci, vals, ord) ==
    Mat([i \in 1..n |-> [j \in 1..g |->
            LET K == {k \in 1..Len(ri) : ri[k] = i /\ ci[k] = j}
            IN  IF K = {} THEN m[i][j] ELSE vals[Stays(K, ord)]]], n, g)

\* numpy.ravel_multi_index((ri, ci), (n, g)) raises: an empty Python list
\* is not an integer index array, and no index fits a dimension of zero
RavelRaises(ri, n, g) == Len(ri) = 0 \/ n = 0 \/ g = 0

\* lines 313-320: in union and intersection mode the expression rows are
\* re-indexed by gene_names, genes without data keep zeros
AlignExpression(obj, a, ord) ==
    IF /\ a.modeProcess \in {"union", "intersection"}
       /\ ~IsNone(obj.expression_data)
       /\ obj.num_genes # 0
    THEN LET data       == obj.expression_data.v
             samples    == Len(data[1][2])
             idx_geneEx == Vec([k \in 1..Len(obj.expression_genes) |->
                                   IndexOrFirst(obj.gene_names, obj.expression_genes[k])],
                               Len(obj.expression_genes))
             expression == WriteRows(Zeros(obj.num_genes, samples), idx_geneEx,
                                     Column(data, 2), ord)
         IN  SetAttrs(obj, [expression      |-> expression,
                            expression_data |->
                               Some(Vec([i \in 1..obj.num_genes |->
                                           <<obj.gene_names[i], expression[i]>>],
                                        obj.num_genes))])
    ELSE obj

\* numpy.corrcoef(rows): Pearson's r between the rows, clipped to [-1, 1];
\* with d[i] = k*x[i] - sum(x[i]) it is d[i].d[j] / sqrt(d[i].d[i] * d[j].d[j]).
\* No row gives the 0 x 0 matrix.  One row gives the 0-d value c/c, held
\* here as a 1 x 1 matrix and told apart by ZeroDim.
Corrcoef(rows) ==
    LET n == Len(rows)
        d == Vec([i \in 1..n |->
                    LET k == Len(rows[i])
                        t == SumTo(rows[i], k)
                    IN  Vec([q \in 1..k |-> k * rows[i][q] - t], k)], n)
        c == Mat([i \in 1..n |-> [j \in 1..n |-> Dot(d[i], d[j])]], n, n)
        r == Mat([i \in 1..n |-> [j \in 1..n |->
                    LET q == Quot(c[i][j] * One, ISqrt(c[i][i] * c[j][j]))
                    IN  IF IsNaN(q) THEN NaN
                        ELSE IF q > One THEN One
                        ELSE IF q < -One THEN -One ELSE q]], n, n)
    IN  r

\* numpy.corrcoef of these rows is 0-d, a scalar and not a matrix
ZeroDim(rows) == Len(rows) = 1

\* numpy.fill_diagonal(x, 1); numpy.nan_to_num(x)
FillDiagonalNanToNum(x) ==
    Mat([i \in 1..NRows(x) |-> [j \in 1..NCols(x) |->
            IF i = j THEN One ELSE IF IsNaN(x[i][j]) THEN 0 ELSE x[i][j]]],
        NRows(x), NCols(x))

\* lines 326-329: the identity, or the correlation of the expression rows
CorrelationOf(obj) ==
    IF IsNone(obj.expression_data) THEN Identity(obj.num_genes)
    ELSE Corrcoef(Column(obj.expression_data.v, 2))

\* line 329 yields a 0-d value
CorrelationZeroDim(obj) ==
    ~IsNone(obj.expression_data) /\ ZeroDim(obj.expression_data.v)

\* lines 330-332: NaN is replaced, 1 on the diagonal and 0 off it
CorrelationMatrix(obj) ==
    LET c == CorrelationOf(obj)
    IN  IF HasNaN(c) THEN FillDiagonalNanToNum(c) ELSE c

\* line 331 raises: numpy.fill_diagonal needs an array of at least 2-d
FillDiagonalRaises(obj) == CorrelationZeroDim(obj) /\ HasNaN(CorrelationOf(obj))

\* lines 335-339
KeepExpression(obj, a) ==
    IF a.keep_expression_matrix
    THEN SetAttrs(obj, [expression_matrix |->
             IF ~IsNone(obj.expression_data)
             THEN Some(Column(obj.expression_data.v, 2)) ELSE None])
    ELSE obj

---------------------------------------------------------------------------
(* processData: the motif and PPI matrices.                                *)

\* [index.get(x, 0) for x in labels used]: the places of the labels used
Indices(canon, used) ==
    Vec([k \in 1..Len(used) |-> IndexOrFirst(canon, used[k])], Len(used))

\* lines 352-356: the motif triples written into zeros((num_tfs, num_genes))
MotifMatrix(obj, ord) ==
    LET rows == obj.motif_data.v
    IN  WriteCells(Zeros(obj.num_tfs, obj.num_genes), obj.num_tfs, obj.num_genes,
                   Indices(obj.unique_tfs, Column(rows, 1)),
                   Indices(obj.gene_names, Column(rows, 2)),
                   Column(rows, 3), ord)

\* line 355 raises
MotifMatrixRaises(obj) ==
    RavelRaises(obj.motif_data.v, obj.num_tfs, obj.num_genes)

\* lines 358-368: the identity, or the identity with every PPI triple
\* written at (tf1, tf2) and then, in a second assignment, at (tf2, tf1)
PpiMatrix(obj, ord) ==
    IF IsNone(obj.ppi_data) THEN Identity(obj.num_tfs)
    ELSE LET rows    == obj.ppi_data.v
             idx_tf1 == Indices(obj.unique_tfs, Column(rows, 1))
             idx_tf2 == Indices(obj.unique_tfs, Column(rows, 2))
             once    == WriteCells(Identity(obj.num_tfs), obj.num_tfs, obj.num_tfs,
                                   idx_tf1, idx_tf2, Column(rows, 3), ord)
         IN  WriteCells(once, obj.num_tfs, obj.num_tfs,
                        idx_tf2, idx_tf1, Column(rows, 3), ord)

\* line 365 raises
PpiMatrixRaises(obj) ==
    ~IsNone(obj.ppi_data) /\ RavelRaises(obj.ppi_data.v, obj.num_tfs, obj.num_tfs)

---------------------------------------------------------------------------
(* panda_loop as a state machine.                                          *)

\* the model stops a loop that has made MaxStep passes (the code has no cap)
MaxStep == 5

\* the locals of a panda_loop that has not been entered
NoLocals == [correlation_matrix |-> <<>>, motif_matrix |-> <<>>,
             ppi_matrix |-> <<>>, step |-> 0, hamming |-> HamOne]

\* nothing has happened yet
NoHistory == [normalize |-> 0, loops |-> 0, passes |-> 0, mBlends |-> 0,
              pcUpdates |-> 0, hams |-> <<>>, zeroDim |-> FALSE]

\* a pass that updates ppi_matrix and correlation_matrix whatever hamming is
PassBodyAlwaysUpdates(l, alpha) ==
    LET num_tfs   == NRows(l.motif_matrix)
        num_genes == NCols(l.motif_matrix)
        W         == ConsensusW(l.ppi_matrix, l.motif_matrix, l.correlation_matrix)
        m1        == Blend(l.motif_matrix, W, alpha)
        ppi       == UpdateDiagonal(TFunctionX(m1), num_tfs, alpha, l.step)
        motif     == UpdateDiagonal(TFunctionX(Transpose(m1)), num_genes, alpha, l.step)
    IN  [correlation_matrix |-> Blend(l.correlation_matrix, motif, alpha),
         motif_matrix       |-> m1,
         ppi_matrix         |-> Blend(l.ppi_matrix, ppi, alpha),
         hamming            |-> Hamming(l.motif_matrix, W),
         updated            |-> TRUE]

\* a pass whose diagonal calibrator is given the incremented step index
PassBodyPostIncrement(l, alpha) ==
    LET num_tfs   == NRows(l.motif_matrix)
        num_genes == NCols(l.motif_matrix)
        W         == ConsensusW(l.ppi_matrix, l.motif_matrix, l.correlation_matrix)
        h         == Hamming(l.motif_matrix, W)
        m1        == Blend(l.motif_matrix, W, alpha)
        upd       == Gt(h, Tol)
        ppi       == UpdateDiagonal(TFunctionX(m1), num_tfs, alpha, l.step + 1)
        motif     == UpdateDiagonal(TFunctionX(Transpose(m1)), num_genes, alpha, l.step + 1)
    IN  [correlation_matrix |-> IF upd THEN Blend(l.correlation_matrix, motif, alpha)
                                       ELSE l.correlation_matrix,
         motif_matrix       |-> m1,
         ppi_matrix         |-> IF upd THEN Blend(l.ppi_matrix, ppi, alpha)
                                       ELSE l.ppi_matrix,
         hamming            |-> h,
         updated            |-> upd]

\* the body of one pass of "while hamming > 0.001", CPU or GPU alike:
\* W and hamming from the matrices of the start of the pass, the blend of
\* motif_matrix, and, if hamming > 0.001, the updates of ppi_matrix and
\* correlation_matrix from the blended motif_matrix
PassBody(l, alpha) ==
    LET num_tfs   == NRows(l.motif_matrix)
        num_genes == NCols(l.motif_matrix)
        W         == ConsensusW(l.ppi_matrix, l.motif_matrix, l.correlation_matrix)
        h         == Hamming(l.motif_matrix, W)
        m1        == Blend(l.motif_matrix, W, alpha)
        upd       == Gt(h, Tol)
        ppi       == UpdateDiagonal(TFunctionX(m1), num_tfs, alpha, l.step)
        motif     == UpdateDiagonal(TFunctionX(Transpose(m1)), num_genes, alpha, l.step)
    IN  [correlation_matrix |-> IF upd THEN Blend(l.correlation_matrix, motif, alpha)
                                       ELSE l.correlation_matrix,
         motif_matrix       |-> m1,
         ppi_matrix         |-> IF upd THEN Blend(l.ppi_matrix, ppi, alpha)
                                       ELSE l.ppi_matrix,
         hamming            |-> h,
         updated            |-> upd]

\* a while test with an iteration cap of three passes
LoopContinuesCapped(l) == Gt(l.hamming, Tol) /\ l.step < 3

\* the test of the while statement, line 469
LoopContinues(l) == Gt(l.hamming, Tol)

\* lines 138-140 and 464-467: __init__ calls panda_loop, which sets step
\* and hamming; the parameters are bound to the caller's arrays
PandaLoopEnter ==
    /\ pc = "normalized"
    /\ ~IsNone(self.motif_data)
    /\ loc' = [correlation_matrix |-> self.correlation_matrix,
               motif_matrix       |-> self.motif_matrix,
               ppi_matrix         |-> self.ppi_matrix,
               step |-> 0, hamming |-> HamOne]
    /\ hist' = [hist EXCEPT !.loops = @ + 1]
    /\ pc' = "loop"
    /\ UNCHANGED <<args, self>>

\* what a pass leaves in the locals and in the history
AfterPass(r) ==
    /\ loc' = [correlation_matrix |-> r.correlation_matrix,
               motif_matrix       |-> r.motif_matrix,
               ppi_matrix         |-> r.ppi_matrix,
               step |-> loc.step + 1, hamming |-> r.hamming]
    /\ hist' = [hist EXCEPT !.passes = @ + 1, !.mBlends = @ + 1,
                            !.pcUpdates = IF r.updated THEN @ + 1 ELSE @,
                            !.hams = Append(@, r.hamming)]

\* lines 497-519: a pass with computing == 'cpu'.  The *= and += act in
\* place on the arrays the caller passed, so the caller's arrays change too.
CpuPass ==
    /\ pc = "loop"
    /\ LoopContinues(loc)
    /\ loc.step < MaxStep
    /\ args.computing = "cpu"
    /\ IF PassDefined(loc.ppi_matrix, loc.motif_matrix, loc.correlation_matrix)
       THEN LET r == PassBody(loc, args.alpha)
            IN  /\ AfterPass(r)
                /\ self' = SetAttrs(self,
                       [correlation_matrix |-> r.correlation_matrix,
                        motif_matrix       |-> r.motif_matrix,
                        ppi_matrix         |-> r.ppi_matrix])
                /\ pc' = "loop"
       ELSE /\ pc' = "raised"
            /\ UNCHANGED <<self, loc, hist>>
    /\ UNCHANGED args

\* lines 471-495: a pass with computing == 'gpu'.  cp.array copies the three
\* arrays to the device, so the caller's arrays are left as they were.
GpuPass ==
    /\ pc = "loop"
    /\ LoopContinues(loc)
    /\ loc.step < MaxStep
    /\ args.computing = "gpu"
    /\ IF PassDefined(loc.ppi_matrix, loc.motif_matrix, loc.correlation_matrix)
       THEN /\ AfterPass(PassBody(loc, args.alpha))
            /\ pc' = "loop"
       ELSE /\ pc' = "raised"
            /\ UNCHANGED <<loc, hist>>
    /\ UNCHANGED <<args, self>>

\* lines 469-519 with computing neither 'gpu' nor 'cpu': neither branch is
\* taken, the pass only prints and counts
OtherPass ==
    /\ pc = "loop"
    /\ LoopContinues(loc)
    /\ loc.step < MaxStep
    /\ args.computing \notin {"cpu", "gpu"}
    /\ loc' = [loc EXCEPT !.step = @ + 1]
    /\ hist' = [hist EXCEPT !.passes = @ + 1, !.hams = Append(@, loc.hamming)]
    /\ UNCHANGED <<args, self, pc>>


---------------------------------------------------------------------------
(* The result export.                                                      *)

\* numpy.tile(labels, (n, 1)).flatten(): the whole list, n times over
RECURSIVE Tile(_, _)
Tile(labels, n) == IF n = 0 THEN <<>> ELSE labels \o Tile(labels, n - 1)

\* numpy.repeat(labels, n): each label n times, in the list's order
RECURSIVE Repeat(_, _)
Repeat(labels, n) ==
    IF Len(labels) = 0 THEN <<>>
    ELSE Vec([k \in 1..n |-> labels[1]], n) \o Repeat(Tail(labels), n)

\* pandas.DataFrame(values, index=..., columns=...)
Labelled(values, index, columns) ==
    [values |-> values, index |-> index, columns |-> columns]

\* pandas accepts the labels: as many as the matrix has rows and columns
LabelsFit(values, index, columns) ==
    /\ Len(index) = NRows(values)
    /\ NRows(values) > 0 => Len(columns) = NCols(values)

\* lines 526-530: the four columns of the edge list
EdgeColumns(obj, motif_matrix) ==
    [tf    |-> Tile(obj.unique_tfs, Len(obj.gene_names)),
     gene  |-> Repeat(obj.gene_names, obj.num_tfs),
     motif |-> FlattenF(obj.motif_matrix_unnormalized),
     force |-> FlattenF(motif_matrix)]

\* pandas.DataFrame({'tf': .., 'gene': .., 'motif': .., 'force': ..}) is
\* defined: the columns have one length
EdgeColumnsFit(c) ==
    /\ Len(c.tf) = Len(c.gene)
    /\ Len(c.tf) = Len(c.motif)
    /\ Len(c.tf) = Len(c.force)

\* the data frame of the edge list: one record per row
EdgeList(c) ==
    Vec([k \in 1..Len(c.tf) |->
            [tf |-> c.tf[k], gene |-> c.gene[k], motif |-> c.motif[k], force |-> c.force[k]]],
        Len(c.tf))

\* lines 521-532 and 140-142: the loop is left, the edge list is built if
\* the object still has unique_tfs (save_memory=False), panda_loop returns
\* motif_matrix and __init__ labels it with self.tfs and self.genes
PandaLoopReturn ==
    /\ pc = "loop"
    /\ ~LoopContinues(loc)
    /\ LET cols  == EdgeColumns(self, loc.motif_matrix)
           keeps == HasAttr(self, "unique_tfs")
           obj1  == IF keeps /\ EdgeColumnsFit(cols)
                    THEN SetAttrs(self, [export_panda_results |-> EdgeList(cols)])
                    ELSE self
       IN  IF keeps /\ ~EdgeColumnsFit(cols)
           THEN /\ pc' = "raised"
                /\ self' = self
           ELSE IF ~LabelsFit(loc.motif_matrix, self.tfs, self.genes)
           THEN /\ pc' = "raised"
                /\ self' = obj1
           ELSE /\ pc' = "done"
                /\ self' = SetAttrs(obj1, [panda_network |->
                              Labelled(loc.motif_matrix, self.tfs, self.genes)])
    /\ UNCHANGED <<args, loc, hist>>

---------------------------------------------------------------------------
(* Construction: processData and the normalization of __init__.            *)

\* __pearson_results_data_frame, lines 539-545: the three columns
PearsonColumns(obj) ==
    [tf    |-> Tile(obj.gene_names, Len(obj.gene_names)),
     gene  |-> Repeat(obj.gene_names, Len(obj.gene_names)),
     force |-> FlattenF(obj.panda_network)]

\* pandas.DataFrame({'tf': .., 'gene': .., 'force': ..}) is defined
PearsonColumnsFit(c) == Len(c.tf) = Len(c.force)

\* the data frame of the co-expression edges: one record per row
PearsonFrame(c) ==
    Vec([k \in 1..Len(c.tf) |-> [tf |-> c.tf[k], gene |-> c.gene[k], force |-> c.force[k]]],
        Len(c.tf))

\* pandas.DataFrame(data, index, columns) where data may be 0-d: a scalar
\* fills a frame of the shape of the labels
FrameValues(data, zeroDim, index, columns) ==
    IF zeroDim
    THEN Mat([i \in 1..Len(index) |-> [j \in 1..Len(columns) |-> data[1][1]]],
             Len(index), Len(columns))
    ELSE data

\* the return without a motif prior, but with the normalized correlation
\* matrix as the result network
NoMotifReturnNormalized(obj, zeroDim) ==
    LET genes  == obj.expression_genes
        result == IF zeroDim THEN obj.correlation_matrix
                             ELSE NormalizeNetwork(obj.correlation_matrix)
        o1     == SetAttrs(obj, [panda_network        |-> result,
                                 export_panda_results |-> result,
                                 motif_matrix         |-> obj.motif_data,
                                 ppi_matrix           |-> obj.ppi_data])
        cols   == PearsonColumns(o1)
        o2     == SetAttrs(o1, [flat_panda_network   |-> cols.force,
                                export_panda_results |-> PearsonFrame(cols)])
    IN  IF ~PearsonColumnsFit(cols) THEN [pc |-> "raised", obj |-> o1]
        ELSE IF ~zeroDim /\ ~LabelsFit(result, genes, genes)
            THEN [pc |-> "raised", obj |-> o2]
        ELSE [pc |-> "done",
              obj |-> SetAttrs(o2, [panda_network |->
                          Labelled(FrameValues(result, zeroDim, genes, genes),
                                   genes, genes)])]

\* lines 341-349: without a motif prior processData ends with the
\* correlation matrix as the result
NoMotifReturn(obj, zeroDim) ==
    LET o1   == SetAttrs(obj, [panda_network        |-> obj.correlation_matrix,
                               export_panda_results |-> obj.correlation_matrix,
                               motif_matrix         |-> obj.motif_data,
                               ppi_matrix           |-> obj.ppi_data])
        cols == PearsonColumns(o1)
        o2   == SetAttrs(o1, [flat_panda_network   |-> cols.force,
                              export_panda_results |-> PearsonFrame(cols)])
        genes == obj.expression_genes
    IN  IF ~PearsonColumnsFit(cols)
            THEN [pc |-> "raised", obj |-> SetAttrs(o1, [flat_panda_network |-> cols.force])]
        ELSE IF ~zeroDim /\ ~LabelsFit(obj.correlation_matrix, genes, genes)
            THEN [pc |-> "raised", obj |-> o2]
        ELSE [pc |-> "done",
              obj |-> SetAttrs(o2, [panda_network |->
                          Labelled(FrameValues(obj.correlation_matrix, zeroDim, genes, genes),
                                   genes, genes)])]

\* lines 351-370: with a motif prior the two prior matrices are built
MotifAndPpi(obj, ord) ==
    LET o1 == SetAttrs(obj, [motif_matrix_unnormalized |-> MotifMatrix(obj, ord)])
    IN  IF MotifMatrixRaises(obj) THEN [pc |-> "raised", obj |-> obj]
        ELSE IF PpiMatrixRaises(obj) THEN [pc |-> "raised", obj |-> o1]
        ELSE [pc |-> "aligned", obj |-> SetAttrs(o1, [ppi_matrix |-> PpiMatrix(obj, ord)])]

\* processData, lines 222-370, with the writes made in the order ord
ProcessDataResult(a, ord) ==
    LET o1 == LoadData(a)
        o2 == IF a.modeProcess = "legacy" /\ a.remove_missing /\ ~IsNone(a.motif_file)
              THEN RemoveMissing(o1) ELSE o1
        o3 == AlignExpression(CanonicalSets(o2, a), a, ord)
        o4 == KeepExpression(
                  SetAttrs(o3, [correlation_matrix |-> CorrelationMatrix(o3)]), a)
    IN  IF FillDiagonalRaises(o3) THEN [pc |-> "raised", obj |-> o3]
        ELSE IF IsNone(o4.motif_data) THEN NoMotifReturn(o4, CorrelationZeroDim(o3))
        ELSE MotifAndPpi(o4, ord)

\* line 97 (and the return of lines 98-99 when processData has set
\* export_panda_results): __init__ calls processData
ProcessData ==
    /\ pc = "start"
    /\ \E ord \in WriteOrders :
         LET r == ProcessDataResult(args, ord)
         IN  /\ self' = r.obj
             /\ pc' = r.pc
             /\ hist' = [hist EXCEPT !.zeroDim =
                            HasAttr(r.obj, "correlation_matrix")
                            /\ CorrelationZeroDim(r.obj)]
    /\ UNCHANGED <<args, loc>>

\* lines 105-133: the three matrices are normalized, tfs and genes are
\* named, the temporaries are deleted.  (precision only rounds, save_tmp
\* only writes files: neither is modelled.)  A 0-d correlation has no
\* shape[0]: _normalize_network raises.
Normalize ==
    /\ pc = "aligned"
    /\ IF hist.zeroDim
       THEN /\ pc' = "raised"
            /\ UNCHANGED <<self, hist>>
       ELSE LET o1 == SetAttrs(self,
                        [correlation_matrix |-> NormalizeNetwork(self.correlation_matrix),
                         motif_matrix |-> NormalizeNetwork(self.motif_matrix_unnormalized),
                         ppi_matrix   |-> NormalizeNetwork(self.ppi_matrix),
                         tfs          |-> self.unique_tfs,
                         genes        |-> self.gene_names])
                o2 == IF args.save_memory
                      THEN DelAttrs(o1, {"unique_tfs", "gene_names",
                                         "motif_matrix_unnormalized"})
                      ELSE o1
            IN  /\ self' = DelAttrs(o2, {"expression_data"})
                /\ hist' = [hist EXCEPT !.normalize = @ + 3]
                /\ pc' = "normalized"
    /\ UNCHANGED <<args, loc>>

---------------------------------------------------------------------------
(* panda_loop called on matrices drawn from a bounded set.                 *)

\* the entries of the motif matrices handed to panda_loop: -1.0, 0.0, 1.0
LoopValues == {-One, 0, One}

\* the motif matrices tried: every 2 x 2 matrix over LoopValues and
\* some 2 x 3 and 1 x 2 ones
LoopMotifs ==
    [1..2 -> [1..2 -> LoopValues]]
    \cup {<<<<One, 0, One>>, <<0, One, 0>>>>,
          <<<<One, 0, 0>>, <<0, One, 0>>>>,
          <<<<One, -One, 0>>, <<0, 0, 0>>>>,
          <<<<One, One>>>>}

\* the n x n matrix of ones
Ones(n) == Mat([i \in 1..n |-> [j \in 1..n |-> One]], n, n)

\* the (PPI, correlation) pairs tried with a motif matrix of nt x ng
LoopPriors(nt, ng) ==
    {<<Identity(nt), Identity(ng)>>, <<Ones(nt), Identity(ng)>>,
     <<Identity(nt), Ones(ng)>>, <<Zeros(nt, nt), Zeros(ng, ng)>>}

\* the (computing, alpha) pairs tried: alpha = 0.1 (the default) and 0.5 on
\* the two backends, and a computing value that names no backend
LoopModes == ({"cpu", "gpu"} \X {1, 5}) \cup {<<"tpu", 1>>}

\* the object at the call panda_loop(correlation_matrix, motif_matrix,
\* ppi_matrix, computing, alpha): the three arrays are the caller's
LoopObject(C, M, P, save_memory) ==
    LET tfs   == Vec([i \in 1..NRows(M) |-> i], NRows(M))
        genes == Vec([j \in 1..NCols(M) |-> j], NCols(M))
        base  == [motif_data |-> Some(<<>>),
                  correlation_matrix |-> C, motif_matrix |-> M, ppi_matrix |-> P,
                  num_tfs |-> NRows(M), num_genes |-> NCols(M),
                  tfs |-> tfs, genes |-> genes]
    IN  IF save_memory THEN base
        ELSE SetAttrs(base, [unique_tfs |-> tfs, gene_names |-> genes,
                             motif_matrix_unnormalized |-> M])

LoopInit ==
    \E M \in LoopMotifs, mode \in LoopModes, sm \in BOOLEAN :
      \E pr \in LoopPriors(NRows(M), NCols(M)) :
        /\ args = [computing |-> mode[1], alpha |-> mode[2], save_memory |-> sm]
        /\ self = LoopObject(pr[2], M, pr[1], sm)
        /\ loc = NoLocals
        /\ pc = "normalized"
        /\ hist = NoHistory

LoopNext == PandaLoopEnter \/ CpuPass \/ GpuPass \/ OtherPass \/ PandaLoopReturn

SpecLoop == LoopInit /\ [][LoopNext]_vars


---------------------------------------------------------------------------
(* The input tables tried.                                                 *)

\* the gene and TF labels that occur in the tables
Labels == {1, 2}

\* a table has at most MaxRows rows
MaxRows == 2

\* the non-empty tables of at most MaxRows rows drawn from the set R
Tables(R) == UNION {[1..n -> R] : n \in 1..MaxRows}

\* motif triples (tf, gene, 1.0)
MotifRows == Labels \X Labels \X {One}

\* PPI triples (tf, tf, weight), weight 1.0 or 2.0
PpiRows == Labels \X Labels \X {One, 2 * One}

\* the expression profiles (three samples) a gene may have
Profiles == {<<1, 2, 3>>, <<3, 1, 2>>, <<1, 1, 1>>}

\* expression rows (gene, profile)
ExpressionRows == Labels \X Profiles

\* a file argument: None or a table
Files(R) == {None} \cup {Some(t) : t \in Tables(R)}

\* the tables the others are varied against
BaseMotif == Some(<<<<1, 1, One>>, <<2, 2, One>>>>)
BaseExpression == Some(<<<<1, <<1, 2, 3>>>>, <<2, <<3, 1, 2>>>>>>)
BasePpi == Some(<<<<1, 2, One>>>>)

\* tables whose genes and TFs occur in no other table
ForeignExpression == Some(<<<<3, <<1, 2, 3>>>>, <<4, <<3, 1, 2>>>>>>)
ForeignPpi == Some(<<<<3, 4, One>>>>)

\* (motif_file, expression_file, ppi_file): each table varied over all its
\* values against the base values (or None) of the other two, and the base
\* motif against tables that share no label with it
AlignInputs ==
    (Files(MotifRows) \X {None, BaseExpression} \X {None, BasePpi})
    \cup ({None, BaseMotif} \X Files(ExpressionRows) \X {None, BasePpi})
    \cup ({None, BaseMotif} \X {None, BaseExpression} \X Files(PpiRows))
    \cup ({BaseMotif} \X {BaseExpression, ForeignExpression} \X {BasePpi, ForeignPpi})

Modes == {"legacy", "union", "intersection"}

---------------------------------------------------------------------------
(* processData on its own, on every input of AlignInputs.                  *)

AlignInit ==
    \E in \in AlignInputs, mode \in Modes, rm \in BOOLEAN :
        /\ args = [motif_file |-> in[1], expression_file |-> in[2], ppi_file |-> in[3],
                   modeProcess |-> mode, remove_missing |-> rm,
                   keep_expression_matrix |-> FALSE]
        /\ self = << >>
        /\ loc = NoLocals
        /\ pc = "start"
        /\ hist = NoHistory

AlignNext == ProcessData

SpecAlign == AlignInit /\ [][AlignNext]_vars

---------------------------------------------------------------------------
(* Panda(expression_file, motif_file, ppi_file, ...): the construction.    *)

\* a three-gene expression table and a two-gene one with equal labels
WideExpression ==
    Some(<<<<1, <<1, 2, 3>>>>, <<2, <<3, 1, 2>>>>, <<3, <<2, 3, 1>>>>>>)
TwinExpression == Some(<<<<1, <<1, 2, 3>>>>, <<1, <<3, 1, 2>>>>>>)

\* the expression and PPI arguments tried in a construction
InitExpressions == {None, WideExpression, TwinExpression}
InitPpis == {None, Some(<<<<1, 2, One>>, <<2, 1, 2 * One>>>>)}

\* the (computing, save_memory, keep_expression_matrix) settings tried
InitOptions == {<<"cpu", TRUE, FALSE>>, <<"gpu", FALSE, TRUE>>}

\* (motif_file, expression_file, ppi_file): every motif table without
\* PPI, and every expression and PPI argument against three motif arguments
InitInputs ==
    (Files(MotifRows) \X {None, WideExpression} \X {None})
    \cup ({None, BaseMotif, Some(<<<<1, 1, One>>>>)} \X InitExpressions \X InitPpis)

Init ==
    \E in \in InitInputs, mode \in Modes, rm \in BOOLEAN, opt \in InitOptions :
        /\ args = [motif_file |-> in[1], expression_file |-> in[2], ppi_file |-> in[3],
                   computing |-> opt[1], save_memory |-> opt[2],
                   keep_expression_matrix |-> opt[3],
                   remove_missing |-> rm, modeProcess |-> mode, alpha |-> 1]
        /\ self = << >>
        /\ loc = NoLocals
        /\ pc = "start"
        /\ hist = NoHistory

Next ==
    \/ ProcessData
    \/ Normalize
    \/ PandaLoopEnter
    \/ CpuPass
    \/ GpuPass
    \/ PandaLoopReturn

Spec == Init /\ [][Next]_vars

---------------------------------------------------------------------------
(* Claims about panda_loop.                                                *)

\* the hamming of the last pass made
LastHamming == hist.hams[Len(hist.hams)]

\* C1 (as amended): with computing 'cpu' or 'gpu' every pass blends M and
\* counts one step; every pass but the last had hamming > 0.001; the loop
\* is left exactly after the first pass whose hamming is not greater than
\* 0.001 (at most 0.001, or NaN); P and C are updated on every pass but
\* that one, so at exit the M blends number the P/C updates plus one and
\* step is the number of passes.
C1_ExitAfterFirstPassNotAboveTolerance ==
    args.computing \in {"cpu", "gpu"} =>
        /\ hist.passes = loc.step
        /\ hist.mBlends = hist.passes
        /\ Len(hist.hams) = hist.passes
        /\ \A k \in 1..(Len(hist.hams) - 1) : Gt(hist.hams[k], Tol)
        /\ hist.passes > 0 =>
              /\ loc.hamming = LastHamming
              /\ hist.pcUpdates = IF Gt(LastHamming, Tol) THEN hist.mBlends
                                                         ELSE hist.mBlends - 1
        /\ pc = "done" =>
              /\ hist.passes > 0
              /\ ~Gt(LastHamming, Tol)
              /\ hist.mBlends = hist.pcUpdates + 1
              /\ loc.step = hist.passes

\* C1, witness: a CPU or GPU loop left after several passes, the last of
\* which had a hamming of at most 0.001
C1_Witness ==
    /\ pc = "done"
    /\ args.computing \in {"cpu", "gpu"}
    /\ hist.passes >= 3
    /\ ~IsNaN(LastHamming) /\ LastHamming <= Tol
    /\ hist.pcUpdates = hist.passes - 1

\* C1 as stated: every pass computes W and blends M; the loop is left
\* exactly after the first pass whose hamming is <= 0.001; at exit the M
\* blends number the P/C updates plus one and step is the number of passes
C1_Original ==
    /\ hist.mBlends = hist.passes
    /\ pc = "done" =>
          /\ hist.passes > 0
          /\ ~IsNaN(LastHamming) /\ LastHamming <= Tol
          /\ \A k \in 1..(Len(hist.hams) - 1) :
                 IsNaN(hist.hams[k]) \/ hist.hams[k] > Tol
          /\ hist.mBlends = hist.pcUpdates + 1
          /\ loc.step = hist.passes

\* C9: the loop has a configurable cap on its passes: configured to
\* MaxStep or less, a loop that has made that many passes has stopped with a
\* convergence failure instead of going on
C9_LoopStopsAtTheCap ==
    (pc = "loop" /\ loc.step >= MaxStep) => ~LoopContinues(loc)

\* C8: the edge list built after the loop (save_memory=False) has one row
\* per (TF, gene) pair in column-major order: row k (from 0) has
\* tf = TFs[k mod nTF], gene = genes[k div nTF], motif = the unnormalized
\* prior at (tf, gene) and force = the result network at (tf, gene), so the
\* rows give back the dense result.
C8_EdgeListColumnMajor ==
    (pc = "done" /\ HasAttr(self, "export_panda_results")) =>
        LET rows  == self.export_panda_results
            tfs   == self.unique_tfs
            genes == self.gene_names
            nTF   == Len(tfs)
        IN  /\ Len(rows) = nTF * Len(genes)
            /\ \A k \in 0..(Len(rows) - 1) :
                 LET t == (k % nTF) + 1
                     g == (k \div nTF) + 1
                 IN  rows[k + 1] =
                        [tf    |-> tfs[t],
                         gene  |-> genes[g],
                         motif |-> self.motif_matrix_unnormalized[t][g],
                         force |-> self.panda_network.values[t][g]]

\* C8, witness: a loop over two TFs has converged and left an edge list;
\* the result is all numbers, is not symmetric and differs from the prior
C8_Witness ==
    /\ pc = "done"
    /\ HasAttr(self, "export_panda_results")
    /\ Len(self.unique_tfs) = 2
    /\ ~HasNaN(self.panda_network.values)
    /\ self.panda_network.values # self.motif_matrix_unnormalized
    /\ self.panda_network.values[1][2] # self.panda_network.values[2][1]

---------------------------------------------------------------------------
(* Claims about the construction.                                          *)

\* the labels in column c of a file argument
ArgLabels(file, c) == IF IsNone(file) THEN {} ELSE Range(Column(file.v, c))

\* the sequence q is strictly ascending
Ascending(q) == \A k \in 1..(Len(q) - 1) : q[k] < q[k + 1]

\* the matrix x has n rows of m entries
IsShape(x, n, m) == Len(x) = n /\ \A i \in 1..Len(x) : Len(x[i]) = m

\* C2: when motif_file is None, construction ends right after alignment:
\* _normalize_network and panda_loop are never invoked, and the result
\* network holds the un-normalized correlation matrix (1 on its diagonal),
\* in every mode and whatever expression and PPI data are given.
C2_NoMotifEndsAfterAlignment ==
    IsNone(args.motif_file) =>
        /\ hist.normalize = 0 /\ hist.loops = 0 /\ hist.passes = 0
        /\ pc \in {"start", "done", "raised"}
        /\ pc = "done" =>
              LET c   == self.correlation_matrix
                  net == self.panda_network.values
              IN  /\ \A i \in 1..NRows(c) : c[i][i] = One
                  /\ IF hist.zeroDim
                     THEN \A i \in 1..NRows(net) : \A j \in 1..NCols(net) :
                              net[i][j] = c[1][1]
                     ELSE net = c

\* C2, witness: a construction without motif prior, with expression and PPI
\* data, has ended with a correlation matrix that is not the identity
C2_Witness ==
    /\ pc = "done"
    /\ IsNone(args.motif_file)
    /\ ~IsNone(args.expression_file) /\ ~IsNone(args.ppi_file)
    /\ NRows(self.panda_network.values) >= 2
    /\ self.panda_network.values[1][2] \notin {0, One}

\* C3: in union mode gene_names is the ascending, duplicate-free union of
\* the motif genes and the expression genes, unique_tfs the ascending,
\* duplicate-free union of the PPI TFs (both columns) and the motif TFs,
\* and num_genes and num_tfs are the sizes of those unions.
C3_UnionSetsSortedAndComplete ==
    (args.modeProcess = "union" /\ pc # "start") =>
        LET motifGenes == ArgLabels(args.motif_file, 2)
            exprGenes  == IF IsNone(args.expression_file) THEN motifGenes
                          ELSE ArgLabels(args.expression_file, 1)
            motifTfs   == ArgLabels(args.motif_file, 1)
            ppiTfs     == IF IsNone(args.ppi_file) THEN motifTfs
                          ELSE ArgLabels(args.ppi_file, 1) \cup ArgLabels(args.ppi_file, 2)
        IN  /\ Ascending(self.gene_names)
            /\ Range(self.gene_names) = motifGenes \cup exprGenes
            /\ self.num_genes = Cardinality(motifGenes \cup exprGenes)
            /\ Ascending(self.unique_tfs)
            /\ Range(self.unique_tfs) = ppiTfs \cup motifTfs
            /\ self.num_tfs = Cardinality(ppiTfs \cup motifTfs)

\* C3, witness: union mode has aligned tables whose label sets differ: the
\* expression names a gene the motif prior lacks, the PPI a TF it lacks
C3_Witness ==
    /\ args.modeProcess = "union"
    /\ pc = "aligned"
    /\ ~IsNone(args.expression_file) /\ ~IsNone(args.ppi_file)
    /\ ArgLabels(args.motif_file, 2) # Range(self.gene_names)
    /\ ArgLabels(args.motif_file, 1) # Range(self.unique_tfs)

\* C4: in intersection mode whatever names a gene or TF outside the
\* canonical sets changes no cell: a non-zero motif cell holds the weight of
\* a motif triple with the cell's own labels, a PPI cell holds the identity
\* or the weight of a PPI triple with the cell's labels (either way round),
\* an expression row is zero or the profile of the row's own gene.
C4_IntersectionDropsOutsiders ==
    (args.modeProcess = "intersection" /\ pc = "aligned") =>
        LET tfs   == self.unique_tfs
            genes == self.gene_names
            motif == args.motif_file.v
        IN  /\ \A i \in 1..Len(tfs) : \A j \in 1..Len(genes) :
                 LET v == self.motif_matrix_unnormalized[i][j]
                 IN  v # 0 => \E k \in 1..Len(motif) : motif[k] = <<tfs[i], genes[j], v>>
            /\ ~IsNone(args.ppi_file) =>
                 \A i \in 1..Len(tfs) : \A j \in 1..Len(tfs) :
                   LET v   == self.ppi_matrix[i][j]
                       ppi == args.ppi_file.v
                   IN  \/ v = (IF i = j THEN One ELSE 0)
                       \/ \E k \in 1..Len(ppi) :
                            ppi[k] \in {<<tfs[i], tfs[j], v>>, <<tfs[j], tfs[i], v>>}
            /\ ~IsNone(args.expression_file) =>
                 \A i \in 1..Len(genes) :
                   LET row  == self.expression[i]
                       data == args.expression_file.v
                   IN  \/ \A q \in 1..Len(row) : row[q] = 0
                       \/ \E k \in 1..Len(data) : data[k] = <<genes[i], row>>

\* C5: after alignment the PPI matrix is symmetric, whatever the triples
C5_PpiSymmetric ==
    pc = "aligned" =>
        \A i \in 1..NRows(self.ppi_matrix) : \A j \in 1..NRows(self.ppi_matrix) :
            self.ppi_matrix[i][j] = self.ppi_matrix[j][i]

\* C6: in every mode and with every remove_missing, the matrices handed to
\* normalization and to the loop fit the canonical sets: motif is num_tfs x
\* num_genes, correlation num_genes x num_genes, PPI num_tfs x num_tfs
C6_ConformableMatrices ==
    /\ pc = "aligned" =>
          /\ IsShape(self.motif_matrix_unnormalized, self.num_tfs, self.num_genes)
          /\ IsShape(self.correlation_matrix, self.num_genes, self.num_genes)
          /\ IsShape(self.ppi_matrix, self.num_tfs, self.num_tfs)
    /\ pc \in {"normalized", "loop"} =>
          /\ IsShape(self.motif_matrix, self.num_tfs, self.num_genes)
          /\ IsShape(self.correlation_matrix, self.num_genes, self.num_genes)
          /\ IsShape(self.ppi_matrix, self.num_tfs, self.num_tfs)

\* C7: no NaN survives _normalize_network: the three matrices it leaves,
\* which enter panda_loop, hold numbers only
C7_NoNaNAfterNormalization ==
    pc = "normalized" =>
        /\ ~HasNaN(self.correlation_matrix)
        /\ ~HasNaN(self.motif_matrix)
        /\ ~HasNaN(self.ppi_matrix)

\* C10: in legacy mode with remove_missing and a motif prior, after
\* alignment gene_names has no gene absent from the motif prior, unique_tfs
\* no TF absent from the filtered motif triples, and no PPI triple names a
\* TF outside that set; without remove_missing nothing is filtered
C10_LegacyFilteringHolds ==
    (args.modeProcess = "legacy" /\ ~IsNone(args.motif_file) /\ pc # "start") =>
        IF args.remove_missing
        THEN /\ Range(self.gene_names) \subseteq ArgLabels(args.motif_file, 2)
             /\ Range(self.unique_tfs) \subseteq ArgLabels(self.motif_data, 1)
             /\ ArgLabels(self.ppi_data, 1) \cup ArgLabels(self.ppi_data, 2)
                    \subseteq Range(self.unique_tfs)
        ELSE /\ self.motif_data = args.motif_file
             /\ self.ppi_data = args.ppi_file


---------------------------------------------------------------------------
(* Claims C11 to C19.                                                      *)

\* the expression table names a gene on more than one row (the case of the
\* warning of lines 267-268)
DuplicateGenes ==
    /\ ~IsNone(args.expression_file)
    /\ Cardinality(Range(Column(args.expression_file.v, 1)))
           < Len(args.expression_file.v)

\* intersection mode has left no gene or no TF
EmptyIntersection ==
    /\ args.modeProcess = "intersection"
    /\ HasAttr(self, "num_genes")
    /\ (self.num_genes = 0 \/ self.num_tfs = 0)

\* C11: data-quality anomalies are never fatal: for an expression table
\* with duplicate gene labels, and for an empty gene or TF intersection in
\* intersection mode, processData completes without raising.
C11_AnomaliesNeverFatal ==
    (pc # "start" /\ (DuplicateGenes \/ EmptyIntersection)) => pc # "raised"

\* the gene labels of the expression rows the correlation matrix was
\* computed from, in row order
CorrelationRowGenes == Column(self.expression_data.v, 1)

\* C12: without a motif prior the gene x gene network is labelled
\* consistently with its data in every alignment mode: the i-th row and
\* column label of panda_network is the gene whose expression row produced
\* row i of the correlation matrix, and that order is the gene order of the
\* 'tf' and 'gene' labels of the gene-gene edge list.
C12_NoMotifLabelsFollowData ==
    (pc = "done" /\ IsNone(args.motif_file) /\ ~IsNone(args.expression_file)) =>
        /\ self.panda_network.index = CorrelationRowGenes
        /\ self.panda_network.columns = CorrelationRowGenes
        /\ self.panda_network.index = self.gene_names

---------------------------------------------------------------------------
(* _normalize_network and t_function called on their own.                  *)

\* the values of the entries, and the matrices x tried: every 2 x 2 matrix
\* of these values and every 2 x 3 matrix of zeros and ones
CallValues == {-One, 0, One, 2 * One}
CallMatrices ==
    [1..2 -> [1..2 -> CallValues]] \cup [1..2 -> [1..3 -> {0, One}]]

CallsInit ==
    \E x \in CallMatrices :
        /\ args = [x |-> Mat(x, NRows(x), NCols(x))]
        /\ self = << >>
        /\ loc = NoLocals
        /\ pc = "start"
        /\ hist = NoHistory

\* normalized_matrix = self._normalize_network(x)
NormalizeNetworkCall ==
    /\ pc = "start"
    /\ loc' = [function |-> "_normalize_network", result |-> NormalizeNetwork(args.x)]
    /\ pc' = "returned"
    /\ UNCHANGED <<args, self, hist>>

\* a_matrix = t_function(x)
TFunctionCall ==
    /\ pc = "start"
    /\ loc' = [function |-> "t_function", result |-> TFunctionX(args.x)]
    /\ pc' = "returned"
    /\ UNCHANGED <<args, self, hist>>

CallsNext == NormalizeNetworkCall \/ TFunctionCall

SpecCalls == CallsInit /\ [][CallsNext]_vars

\* the call of function f has returned
Returned(f) == pc = "returned" /\ loc.function = f

\* no row and no column of x has zero variance: no z-score is NaN
NoZeroVariance(x) == ~HasNaN(ZScoreCols(x)) /\ ~HasNaN(ZScoreRows(x))

\* C13: for any matrix with no zero-variance row or column, square or not
\* and symmetric or not, _normalize_network returns (column-wise z-score +
\* row-wise z-score)/sqrt(2), entry by entry, the row-wise z-score of entry
\* (i,j) standardizing it against row i.
C13_NormalizeIsColumnPlusRowZScore ==
    (Returned("_normalize_network") /\ NoZeroVariance(args.x)) =>
        \A i \in 1..NRows(args.x), j \in 1..NCols(args.x) :
            loc.result[i][j] =
                DivSqrt2(Add(ZScoreCols(args.x)[i][j], ZScoreRows(args.x)[i][j]))

\* row i of x is not the zero vector
NonZeroRow(x, i) == Dot(x[i], x[i]) > 0

\* C14 (as the code has it): for every X and every row u of X with |u| > 0
\* the diagonal entry of t_function(X) for u, (u.u)/sqrt(|u|^2 + |u|^2 -
\* |u.u|), equals |u| = sqrt(u.u), to two units of the last place (the root
\* and the quotient are both rounded): it is 1 only when |u| = 1.
C14_KernelDiagonalIsNorm ==
    Returned("t_function") =>
        \A i \in 1..NRows(args.x) :
            NonZeroRow(args.x, i) =>
                LET d == loc.result[i][i]
                    a == Dot(args.x[i], args.x[i])
                IN  /\ ~IsNaN(d) /\ d > 2
                    /\ (d - 2) * (d - 2) <= a
                    /\ a <= (d + 2) * (d + 2)

\* a kernel has returned for an X with a row of norm sqrt(2) and a row of
\* norm 2: the diagonal entries are 1.42 and 2.0
C14_Witness ==
    /\ Returned("t_function")
    /\ \E i \in 1..NRows(args.x) : Dot(args.x[i], args.x[i]) = 2 * One * One
                                    /\ loc.result[i][i] = 142
    /\ \E i \in 1..NRows(args.x) : Dot(args.x[i], args.x[i]) = 4 * One * One
                                    /\ loc.result[i][i] = 2 * One

\* C14 as stated: the diagonal entry of t_function(X) for every row u with
\* |u| > 0 equals 1.
C14_Original ==
    Returned("t_function") =>
        \A i \in 1..NRows(args.x) :
            NonZeroRow(args.x, i) => loc.result[i][i] = One

---------------------------------------------------------------------------
(* save_panda_results.                                                     *)

\* an export that always takes the dense network
ToExportAlwaysDense(obj) ==
    [attribute |-> "panda_network", content |-> obj.panda_network]

\* lines 557-560: what save_panda_results writes, and the attribute it is
\* taken from: panda_network if the object has no unique_tfs, the edge list
\* export_panda_results otherwise
ToExport(obj) ==
    IF ~HasAttr(obj, "unique_tfs")
    THEN [attribute |-> "panda_network", content |-> obj.panda_network]
    ELSE [attribute |-> "export_panda_results", content |-> obj.export_panda_results]

---------------------------------------------------------------------------
(* Two calls of panda_loop side by side, from the same matrices and alpha, *)
(* one with computing='cpu' and one with 'gpu', or one with save_memory    *)
(* and one without; then save_panda_results on both objects.  In this      *)
(* specification args, self, loc and pc are pairs, one entry per call, and *)
(* hist holds the two files written.                                       *)

Sides == {1, 2}

\* the two argument lists: they differ in the argument vary alone
PairArgs(vary, other, alpha) ==
    IF vary = "computing"
    THEN <<[computing |-> "cpu", save_memory |-> other, alpha |-> alpha],
           [computing |-> "gpu", save_memory |-> other, alpha |-> alpha]>>
    ELSE <<[computing |-> IF other THEN "cpu" ELSE "gpu",
            save_memory |-> TRUE, alpha |-> alpha],
           [computing |-> IF other THEN "cpu" ELSE "gpu",
            save_memory |-> FALSE, alpha |-> alpha]>>

\* the motif matrices tried in a pair: the 2 x 2 matrices of -1.0 and 1.0
\* and the matrices of LoopMotifs of another shape
PairMotifs ==
    {M \in LoopMotifs : NCols(M) # 2 \/ NRows(M) # 2
                            \/ \A i, j \in 1..2 : M[i][j] # 0}

PairInit ==
    \E M \in PairMotifs, alpha \in {1, 5}, other \in BOOLEAN,
       vary \in {"computing", "save_memory"} :
      \E pr \in LoopPriors(NRows(M), NCols(M)) :
        /\ args = PairArgs(vary, other, alpha)
        /\ self = Vec([k \in Sides |->
                         LoopObject(pr[2], M, pr[1], args[k].save_memory)], 2)
        /\ loc = <<NoLocals, NoLocals>>
        /\ pc = <<"normalized", "normalized">>
        /\ hist = [saved |-> <<None, None>>]

\* one side of the pair: its object, its locals, its position, its file
Side(k) == [self |-> self[k], loc |-> loc[k], pc |-> pc[k], saved |-> hist.saved[k]]

\* the sides s replace the two sides of the state
PairBecomes(s) ==
    /\ self' = <<s[1].self, s[2].self>>
    /\ loc' = <<s[1].loc, s[2].loc>>
    /\ pc' = <<s[1].pc, s[2].pc>>
    /\ hist' = [saved |-> <<s[1].saved, s[2].saved>>]
    /\ UNCHANGED args

\* lines 138-140 and 464-467 on one side: panda_loop is entered
SideEnter(s) ==
    IF s.pc = "normalized"
    THEN [s EXCEPT !.loc = [correlation_matrix |-> s.self.correlation_matrix,
                            motif_matrix       |-> s.self.motif_matrix,
                            ppi_matrix         |-> s.self.ppi_matrix,
                            step |-> 0, hamming |-> HamOne],
                   !.pc = "loop"]
    ELSE s

\* the side is at the head of the loop and the loop goes on
SideInLoop(s) == s.pc = "loop" /\ LoopContinues(s.loc) /\ s.loc.step < MaxStep

\* lines 471-519 on one side: one pass; 'cpu' works in place on the
\* caller's arrays, 'gpu' on copies
SidePass(a, s) ==
    IF SideInLoop(s)
    THEN LET r == PassBody(s.loc, a.alpha)
             m == [correlation_matrix |-> r.correlation_matrix,
                   motif_matrix       |-> r.motif_matrix,
                   ppi_matrix         |-> r.ppi_matrix]
         IN  [s EXCEPT !.loc = [correlation_matrix |-> r.correlation_matrix,
                                motif_matrix       |-> r.motif_matrix,
                                ppi_matrix         |-> r.ppi_matrix,
                                step |-> s.loc.step + 1, hamming |-> r.hamming],
                       !.self = IF a.computing = "cpu" THEN SetAttrs(s.self, m)
                                                       ELSE s.self]
    ELSE s

\* the side is at the head of the loop and the loop ends
SideLeaves(s) == s.pc = "loop" /\ ~LoopContinues(s.loc)

\* lines 521-532 and 140-142 on one side: the edge list if the object has
\* unique_tfs, the return, the labelled panda_network
SideReturn(s) ==
    IF SideLeaves(s)
    THEN LET obj1 == IF HasAttr(s.self, "unique_tfs")
                     THEN SetAttrs(s.self, [export_panda_results |->
                              EdgeList(EdgeColumns(s.self, s.loc.motif_matrix))])
                     ELSE s.self
         IN  [s EXCEPT !.self = SetAttrs(obj1, [panda_network |->
                                    Labelled(s.loc.motif_matrix, obj1.tfs, obj1.genes)]),
                       !.pc = "done"]
    ELSE s

\* save_panda_results(path) on one side
SideSave(s) ==
    IF s.pc = "done"
    THEN [s EXCEPT !.saved = Some(ToExport(s.self)), !.pc = "saved"]
    ELSE s

PairEnter ==
    /\ \E k \in Sides : pc[k] = "normalized"
    /\ PairBecomes(Vec([k \in Sides |-> SideEnter(Side(k))], 2))

PairPass ==
    /\ \E k \in Sides : SideInLoop(Side(k))
    /\ PairBecomes(Vec([k \in Sides |-> SidePass(args[k], Side(k))], 2))

PairReturn ==
    /\ \E k \in Sides : SideLeaves(Side(k))
    /\ PairBecomes(Vec([k \in Sides |-> SideReturn(Side(k))], 2))

PairSave ==
    /\ \E k \in Sides : pc[k] = "done"
    /\ PairBecomes(Vec([k \in Sides |-> SideSave(Side(k))], 2))

PairNext == PairEnter \/ PairPass \/ PairReturn \/ PairSave

SpecPair == PairInit /\ [][PairNext]_vars

\* the two calls differ in the argument named
Varies(name) == args[1][name] # args[2][name]

\* C15: the memory-saving flag changes the export shape only.  For the
\* same inputs and a motif prior, after construction the dense
\* panda_network is the same with save_memory=True and save_memory=False,
\* the edge list export_panda_results exists if and only if save_memory is
\* False, and save_panda_results exports the dense matrix exactly when
\* save_memory is True (the edge list otherwise).
C15_SaveMemoryChangesExportOnly ==
    /\ (Varies("save_memory") /\ pc = <<"done", "done">>) =>
           self[1].panda_network = self[2].panda_network
    /\ \A k \in Sides :
        /\ pc[k] \in {"done", "saved"} =>
               (HasAttr(self[k], "export_panda_results") <=> ~args[k].save_memory)
        /\ pc[k] = "saved" =>
               /\ hist.saved[k].v.attribute = "panda_network" <=> args[k].save_memory
               /\ hist.saved[k].v.content =
                      IF args[k].save_memory THEN self[k].panda_network
                                             ELSE self[k].export_panda_results

\* both constructions have converged on a network without NaN after at
\* least two passes, and both results are saved: a dense matrix on the
\* save_memory side, an edge list on the other
C15_Witness ==
    /\ Varies("save_memory")
    /\ pc = <<"saved", "saved">>
    /\ loc[1].step >= 2
    /\ ~HasNaN(self[1].panda_network.values)
    /\ hist.saved[1].v.attribute = "panda_network"
    /\ hist.saved[2].v.attribute = "export_panda_results"

\* C17: the 'cpu' and 'gpu' backends of panda_loop are functionally
\* identical: started from the same M, P, C and alpha they go through the
\* same sequence of (M, P, C, hamming, step) values, return the same motif
\* matrix, and leave the caller's three input matrices in the same state.
C17_BackendsIdentical ==
    Varies("computing") =>
        /\ loc[1] = loc[2]
        /\ pc[1] = pc[2]
        /\ pc[1] \in {"done", "saved"} =>
               self[1].panda_network = self[2].panda_network
        /\ self[1].motif_matrix = self[2].motif_matrix
        /\ self[1].ppi_matrix = self[2].ppi_matrix
        /\ self[1].correlation_matrix = self[2].correlation_matrix

\* this step is a pass of the 'cpu' or the 'gpu' backend
BackendPass ==
    /\ args.computing \in {"cpu", "gpu"}
    /\ hist'.passes = hist.passes + 1

\* what a pass makes of the locals: W from the M, P, C of the start of the
\* pass and never calibrated, M blended with W, and in a non-terminal pass
\* (hamming > 0.001) P and C blended with the similarity of the new M, the
\* diagonal of each similarity calibrated with the step index of the start
\* of the pass; step one more
PassOrder ==
    LET alpha == args.alpha
        W     == ConsensusW(loc.ppi_matrix, loc.motif_matrix, loc.correlation_matrix)
        M     == Blend(loc.motif_matrix, W, alpha)
        tfs   == UpdateDiagonal(TFunctionX(M), NRows(M), alpha, loc.step)
        genes == UpdateDiagonal(TFunctionX(Transpose(M)), NCols(M), alpha, loc.step)
    IN  /\ hist.passes = 0 => loc.step = 0
        /\ loc'.hamming = Hamming(loc.motif_matrix, W)
        /\ loc'.motif_matrix = M
        /\ IF Gt(loc'.hamming, Tol)
           THEN /\ loc'.ppi_matrix = Blend(loc.ppi_matrix, tfs, alpha)
                /\ loc'.correlation_matrix = Blend(loc.correlation_matrix, genes, alpha)
           ELSE /\ loc'.ppi_matrix = loc.ppi_matrix
                /\ loc'.correlation_matrix = loc.correlation_matrix
        /\ loc'.step = loc.step + 1

\* C16: within one non-terminal pass the order of data dependencies is
\* fixed: W is computed from the M, P, C of the start of the pass; the P
\* update and the C update are both computed from the freshly blended M
\* (C's update does not see the new P); the diagonal calibrator, with the
\* pass's pre-increment step index (0 on the first pass), is applied to the
\* TF-TF and gene-gene similarity matrices before they are blended and
\* never to W or M; step is incremented by exactly one at the end of each
\* pass.
C16_PassOrderFixed == [][BackendPass => PassOrder]_vars

\* three non-terminal passes have been made on matrices without NaN, the
\* third with a step index (2) that the calibrator's growth factor shows
C16_Witness ==
    /\ args.computing \in {"cpu", "gpu"}
    /\ pc = "loop"
    /\ hist.pcUpdates >= 3
    /\ loc.step = hist.passes
    /\ ~HasNaN(loc.ppi_matrix) /\ ~HasNaN(loc.correlation_matrix)
    /\ ~HasNaN(loc.motif_matrix)

\* C18: a not-a-number convergence metric is treated as convergence: if
\* hamming evaluates to NaN on a pass, the comparisons hamming > 0.001 are
\* false, so P and C are not updated on that pass, the loop exits after
\* that pass without any error (no later pass is made), and the returned
\* motif matrix contains NaN.
C18_NaNHammingEndsLoop ==
    (args.computing \in {"cpu", "gpu"} /\ hist.passes > 0) =>
        /\ \A k \in 1..(Len(hist.hams) - 1) : ~IsNaN(hist.hams[k])
        /\ IsNaN(LastHamming) =>
              /\ pc \in {"loop", "done"}
              /\ ~LoopContinues(loc)
              /\ hist.pcUpdates = hist.passes - 1
              /\ HasNaN(loc.motif_matrix)
              /\ pc = "done" => HasNaN(self.panda_network.values)

\* the loop has returned after two passes, the second with a NaN hamming:
\* the first updated P and C (and left a NaN in one), the second did not
C18_Witness ==
    /\ args.computing \in {"cpu", "gpu"}
    /\ pc = "done"
    /\ hist.passes >= 2
    /\ IsNaN(LastHamming)
    /\ hist.pcUpdates = hist.passes - 1
    /\ HasNaN(self.panda_network.values)

\* with a computing that names no backend the loop, once entered, is in
\* progress with hamming 1
UnknownBackendInLoop ==
    (args.computing \notin {"cpu", "gpu"} /\ pc # "normalized") =>
        /\ pc = "loop"
        /\ loc.hamming = HamOne
        /\ LoopContinues(loc)
        /\ loc.step = hist.passes
        /\ \A k \in 1..Len(hist.hams) : hist.hams[k] = HamOne
        /\ ~ENABLED PandaLoopReturn

\* a step taken in the loop with such a computing changes no matrix, of
\* the locals or of the caller, and adds one to step
UnknownBackendPass ==
    (args.computing \notin {"cpu", "gpu"} /\ pc = "loop") =>
        /\ loc'.motif_matrix = loc.motif_matrix
        /\ loc'.ppi_matrix = loc.ppi_matrix
        /\ loc'.correlation_matrix = loc.correlation_matrix
        /\ self' = self
        /\ loc'.step = loc.step + 1

\* C19: when the computing argument is neither 'cpu' nor 'gpu', panda_loop
\* raises no error and never exits: on every pass no matrix is changed and
\* hamming stays at its initial value 1, only step grows, so the loop is
\* never left.
C19_UnknownBackendNeverExits ==
    []UnknownBackendInLoop /\ [][UnknownBackendPass]_vars

\* MaxStep passes have been made with a computing that names no backend,
\* and the loop still goes on
C19_Witness ==
    /\ args.computing \notin {"cpu", "gpu"}
    /\ pc = "loop"
    /\ loc.step = MaxStep
    /\ hist.passes = MaxStep
    /\ LoopContinues(loc)

=========================================================================
